---- MODULE Spec2Model ----
(***************************************************************************)
(* Model of the in-memory todo HTTP server of src/main.go: the Store       *)
(* (map of *Todo behind a sync.RWMutex), the Metrics counters (behind a    *)
(* sync.Mutex), the handlers registered on the ServeMux and the            *)
(* withLogging(withMetrics(mux)) chain, run by concurrent request workers. *)
(***************************************************************************)
EXTENDS Integers, Sequences, FiniteSets, TLC

\* ---------------------------------------------------------------- bounds
\* Requests served in a run with two concurrent connections.
MaxRequests == 3

Workers == {"w1", "w2"}

\* ------------------------------------------------------- program constants
StatusOK == 200
StatusCreated == 201
StatusNoContent == 204
StatusBadRequest == 400
StatusNotFound == 404
StatusMethodNotAllowed == 405

version == "1.0.0"

\* ------------------------------------------------------------------ inputs
Methods == {"GET", "POST", "PUT", "DELETE", "PATCH"}

\* A URL path is a sequence of pieces; the remainder after "/todos/" is a
\* sequence of characters.
Rems == {<<>>, <<"1">>, <<"2">>, <<"a">>}
Paths == {<<"/healthz">>, <<"/version">>, <<"/metrics">>, <<"/todos">>}
         \cup {<<"/todos", "/">> \o r : r \in Rems}

\* Titles are sequences of characters.
Titles == {<<>>, <<" ">>, <<"x">>, <<"y">>}

\* A request body: bytes that do not decode, or a JSON object.
Garbage == [json |-> FALSE]
Bodies == {Garbage} \cup
          {[json |-> TRUE, title |-> ti, completed |-> c] :
              ti \in Titles, c \in BOOLEAN}
NoBody == [json |-> TRUE, title |-> <<>>, completed |-> FALSE]

\* ------------------------------------------------------------ pure helpers
Digits == <<"0", "1", "2", "3", "4", "5", "6", "7", "8", "9">>
IsDigit(c) == \E i \in 1..10 : Digits[i] = c
DigitVal(c) == (CHOOSE i \in 1..10 : Digits[i] = c) - 1

RECURSIVE ParseDigits(_, _)
ParseDigits(s, acc) ==
    IF s = <<>> THEN acc ELSE ParseDigits(Tail(s), acc * 10 + DigitVal(Head(s)))

\* an Atoi that reads the empty string as 0
AtoiEmptyZero(s) ==
    IF s = <<>> \/ \A i \in 1..Len(s) : IsDigit(s[i])
    THEN [err |-> FALSE, val |-> ParseDigits(s, 0)]
    ELSE [err |-> TRUE, val |-> 0]

\* strconv.Atoi: an optional sign, then at least one decimal digit.
Atoi(s) ==
    LET signed == s # <<>> /\ Head(s) \in {"+", "-"}
        ds == IF signed THEN Tail(s) ELSE s
    IN  IF ds = <<>> \/ \E i \in 1..Len(ds) : ~IsDigit(ds[i])
        THEN [err |-> TRUE, val |-> 0]
        ELSE [err |-> FALSE,
              val |-> IF signed /\ Head(s) = "-"
                      THEN 0 - ParseDigits(ds, 0) ELSE ParseDigits(ds, 0)]

IsSpace(c) == c \in {" ", "\t", "\n", "\r"}

RECURSIVE TrimLeft(_)
TrimLeft(s) == IF s # <<>> /\ IsSpace(Head(s)) THEN TrimLeft(Tail(s)) ELSE s

RECURSIVE TrimRight(_)
TrimRight(s) ==
    IF s # <<>> /\ IsSpace(s[Len(s)]) THEN TrimRight(SubSeq(s, 1, Len(s) - 1)) ELSE s

\* a TrimSpace that trims nothing
TrimSpaceId(s) == s

\* strings.TrimSpace
TrimSpace(s) == TrimRight(TrimLeft(s))

\* strings.TrimPrefix(r.URL.Path, "/todos/")
TrimPrefix(p) ==
    IF Len(p) >= 2 /\ p[1] = "/todos" /\ p[2] = "/" THEN SubSeq(p, 3, Len(p)) ELSE p

\* http.ServeMux: the pattern that serves a path ("" when none does).
Mux(p) ==
    IF p = <<"/healthz">> THEN "/healthz"
    ELSE IF p = <<"/metrics">> THEN "/metrics"
    ELSE IF p = <<"/todos">> THEN "/todos"
    ELSE IF Len(p) >= 2 /\ p[1] = "/todos" /\ p[2] = "/" THEN "/todos/"
    ELSE ""

\* json.NewDecoder(r.Body).Decode(&inp)
Decode(b) ==
    IF b.json THEN [err |-> FALSE, Title |-> b.title, Completed |-> b.completed]
    ELSE [err |-> TRUE, Title |-> <<>>, Completed |-> FALSE]

\* id, err := strconv.Atoi(strings.TrimPrefix(r.URL.Path, "/todos/"))
PathId(p) == Atoi(TrimPrefix(p))

\* a POST /todos check that takes any title, as PUT does
ValidCreateAny(b) == ~Decode(b).err

\* the POST /todos check: the body decodes and the trimmed title is not empty
ValidCreate(b) == ~Decode(b).err /\ TrimSpace(Decode(b).Title) # <<>>

\* ------------------------------------------------------------------- state
VARIABLES
    todos,      \* Store.todos: id -> pointer to a Todo (an index of heap)
    next,       \* Store.next
    heap,       \* the Todo records allocated so far: [ID, Title, Completed]
    sWriters,   \* workers inside Store.Lock() .. Unlock()
    sReaders,   \* workers inside Store.RLock() .. RUnlock()
    mHolders,   \* workers inside Metrics.Lock() .. Unlock()
    Requests,   \* Metrics.Requests
    TotalTodos, \* Metrics.TotalTodos
    pc,         \* where each request worker stands
    req,        \* the request a worker serves: [method, path, body]
    lw,         \* statusWriter.status of the worker's request
    sent,       \* what the client has received: [status, body]
    lv,         \* the handler's local variables
    clients,    \* the workers that carry a connection in this run
    budget,     \* the number of requests the clients send in this run
    entered,    \* history: requests that entered the handler chain
    issued,     \* history: the ids returned by Create, in call order
    last,       \* history: id -> arguments of its latest Create/Update
    delCount,   \* history: id -> number of Delete calls that returned true
    dirty,      \* history: the worker's request has changed the store
    scen,       \* history: progress of the end-to-end scenario (-1: left it)
    held,       \* history: every (title, completed) the record held while the
                \* worker's encoder was reading it
    nLogged,    \* history: log lines written by withLogging
    mainPc,     \* where main() stands
    sigPc,      \* where the shutdown goroutine stands
    inShutdown, \* srv.Shutdown has closed the listener
    expired,    \* the 5 s context of Shutdown is done
    closed,     \* idleConnsClosed is closed
    err         \* what srv.ListenAndServe returned

storeVars == <<todos, next, heap>>
lockVars == <<sWriters, sReaders, mHolders>>
metricVars == <<Requests, TotalTodos>>
workerVars == <<pc, req, lw, sent, lv>>
cfgVars == <<clients, budget>>
histVars == <<entered, issued, last, delCount, scen, held, nLogged>>
lifeVars == <<mainPc, sigPc, inShutdown, expired, closed, err>>
vars == <<storeVars, lockVars, metricVars, workerVars, cfgVars, histVars, dirty,
          lifeVars>>

NoReq == [method |-> "", path |-> <<>>, body |-> NoBody]
NoBodySent == [kind |-> "", text |-> "", todos |-> {}, requests |-> 0, total_todos |-> 0]
NoSent == [status |-> 0, body |-> NoBodySent]
\* (present and listed are history: what the store held when it was asked)
NoLv == [id |-> 0, t |-> 0, ok |-> FALSE, code |-> 0, all |-> {},
         snap |-> [requests |-> 0, total_todos |-> 0], tmp |-> 0, present |-> FALSE,
         enc |-> [id |-> 0, title |-> <<>>, completed |-> FALSE], listed |-> {}]

\* The requests of the end-to-end scenario.
Scenario ==
    << [method |-> "POST", path |-> <<"/todos">>,
        body |-> [json |-> TRUE, title |-> <<"x">>, completed |-> FALSE]],
       [method |-> "GET", path |-> <<"/todos", "/", "1">>, body |-> NoBody],
       [method |-> "PUT", path |-> <<"/todos", "/", "1">>,
        body |-> [json |-> TRUE, title |-> <<"y">>, completed |-> TRUE]],
       [method |-> "DELETE", path |-> <<"/todos", "/", "1">>, body |-> NoBody],
       [method |-> "GET", path |-> <<"/todos", "/", "1">>, body |-> NoBody] >>

\* Requests served in a run with a single connection: enough for the scenario.
SeqRequests == Len(Scenario)

\* ------------------------------------------------------------------- locks
\* a mutex that excludes nobody
MutexFreeBroken(holders) == TRUE

\* sync.Mutex.Lock() returns only when nobody holds the mutex.
MutexFree(holders) == holders = {}

\* a Lock() that excludes nobody
CanLockBroken(writers, readers) == TRUE

\* sync.RWMutex.Lock() returns only when there is no writer and no reader.
CanLock(writers, readers) == writers = {} /\ readers = {}

\* a read lock that does not wait for the writer
CanRLockAlways(writers) == TRUE

\* sync.RWMutex.RLock() returns only when there is no writer.
CanRLock(writers) == writers = {}

\* a deferred Unlock that never runs
UnlockedNever(holders, w) == holders

\* Unlock() / RUnlock(): the caller leaves the lock
Unlocked(holders, w) == holders \ {w}

\* --------------------------------------------------------------- responses
\* a statusWriter built without its initial status
InitialStatusUnset == StatusOK - StatusOK

\* lw := &statusWriter{w, http.StatusOK}
InitialStatus == StatusOK

\* ResponseWriter.WriteHeader: the first status written is the one sent.
SendHeader(s, code) == IF s.status = 0 THEN [s EXCEPT !.status = code] ELSE s

\* ResponseWriter.Write: an implicit 200 when no status was written.
SendBody(s, b) == [SendHeader(s, StatusOK) EXCEPT !.body = b]

TextBody(msg) == [NoBodySent EXCEPT !.kind = "text", !.text = msg]

\* json encoding of the Todo records behind a set of pointers
Encode(ptrs) ==
    {[id |-> heap[p].ID, title |-> heap[p].Title, completed |-> heap[p].Completed] :
        p \in ptrs}

\* the (title, completed) of a record
Pair(t) == [title |-> t.Title, completed |-> t.Completed]

\* history: a field of record p was written in this step, while encoders
\* that had begun to read p had not finished
Written(p) ==
    held' = [v \in Workers |->
               IF pc[v] = "enc_completed" /\ lv[v].t = p
               THEN held[v] \cup {Pair(heap'[p])}
               ELSE held[v]]

\* the store changed in this step
Touch(w) ==
    dirty' = [dirty EXCEPT ![w] = @ \/ (storeVars' # storeVars)]

\* the state main() builds before it serves: NewStore(), &Metrics{}, the
\* shutdown goroutine started and waiting for the signal
Fresh ==
    /\ todos = <<>>
    /\ next = 1
    /\ heap = <<>>
    /\ sWriters = {} /\ sReaders = {} /\ mHolders = {}
    /\ Requests = 0 /\ TotalTodos = 0
    /\ pc = [w \in Workers |-> "idle"]
    /\ req = [w \in Workers |-> NoReq]
    /\ lw = [w \in Workers |-> 0]
    /\ sent = [w \in Workers |-> NoSent]
    /\ lv = [w \in Workers |-> NoLv]
    /\ entered = 0
    /\ issued = <<>>
    /\ last = <<>>
    /\ delCount = <<>>
    /\ dirty = [w \in Workers |-> FALSE]
    /\ scen = 0
    /\ held = [w \in Workers |-> {}]
    /\ nLogged = 0
    /\ mainPc = "start"
    /\ sigPc = "wait_signal"
    /\ inShutdown = FALSE
    /\ expired = FALSE
    /\ closed = FALSE
    /\ err = ""

Init ==
    /\ Fresh
    /\ \/ clients = Workers /\ budget = MaxRequests
       \/ clients = {"w1"} /\ budget = SeqRequests

\* the listener takes new connections
Accepting == mainPc = "serving" /\ ~inShutdown

\* ----------------------------------------------------------------- helpers
SetPc(w, l) == pc' = [pc EXCEPT ![w] = l]
SetLv(w, r) == lv' = [lv EXCEPT ![w] = r]

\* http.Error(w, msg, code) through the statusWriter
HttpError(w, msg, code) ==
    /\ lw' = [lw EXCEPT ![w] = code]
    /\ sent' = [sent EXCEPT ![w] = SendBody(SendHeader(@, code), TextBody(msg))]

\* The bodies worth sending with a request: a handler that never reads the
\* body is sent none.
BodiesFor(m, p) ==
    IF \/ m = "POST" /\ Mux(p) = "/todos"
       \/ m = "PUT" /\ Mux(p) = "/todos/" /\ ~PathId(p).err
    THEN Bodies ELSE {NoBody}

AllRequests ==
    {[method |-> m, path |-> p, body |-> b] :
        <<m, p, b>> \in {x \in Methods \X Paths \X Bodies : x[3] \in BodiesFor(x[1], x[2])}}

\* A request the handlers take to the store or to the metrics.
ReachesState(r) ==
    \/ r.method = "GET" /\ Mux(r.path) \in {"/metrics", "/todos"}
    \/ r.method = "POST" /\ Mux(r.path) = "/todos" /\ ValidCreate(r.body)
    \/ /\ Mux(r.path) = "/todos/" /\ ~PathId(r.path).err
       /\ \/ r.method \in {"GET", "DELETE"}
          \/ r.method = "PUT" /\ ~Decode(r.body).err

\* Requests answered without a look at the store: one of each kind.
Rejected ==
    { [method |-> "GET", path |-> <<"/healthz">>, body |-> NoBody],
      [method |-> "GET", path |-> <<"/version">>, body |-> NoBody],
      [method |-> "PATCH", path |-> <<"/todos">>, body |-> NoBody],
      [method |-> "POST", path |-> <<"/todos">>, body |-> Garbage],
      [method |-> "GET", path |-> <<"/todos", "/", "a">>, body |-> NoBody],
      [method |-> "PUT", path |-> <<"/todos", "/", "1">>, body |-> Garbage],
      [method |-> "PATCH", path |-> <<"/todos", "/", "1">>, body |-> NoBody] }

\* The bodies sent over concurrent connections: three of the JSON objects.
ConcurrentBodies ==
    {b \in Bodies \ {Garbage} :
        /\ b.title \in {<<>>, <<"x">>, <<"y">>}
        /\ b.completed <=> (b.title = <<"y">>)}

\* The requests of a run: every request when they come one after another;
\* with concurrent connections, those that reach shared state (with one of
\* three bodies) and one of each kind of the others, which differ in nothing
\* another worker can see.
RequestsOf(cl) ==
    IF Cardinality(cl) = 1 THEN AllRequests
    ELSE {r \in AllRequests : ReachesState(r) /\ r.body \in ConcurrentBodies}
         \cup Rejected

\* ------------------------------------------------------- middleware chain
\* withLogging: lw := &statusWriter{w, http.StatusOK}, then the inner handler.
\* Neither middleware looks at the request before the mux does: its content
\* is drawn where it is first read (IncUnlock, on the way into the mux).
Begin(w) ==
    /\ pc[w] = "idle"
    /\ w \in clients
    /\ entered < budget
    /\ Accepting
    /\ lw' = [lw EXCEPT ![w] = InitialStatus]
    /\ sent' = [sent EXCEPT ![w] = NoSent]
    /\ SetLv(w, NoLv)
    /\ SetPc(w, "inc")
    /\ entered' = entered + 1
    /\ scen' = IF scen >= 0 /\ entered = scen /\ \A o \in Workers : pc[o] = "idle"
               THEN scen ELSE -1
    /\ dirty' = [dirty EXCEPT ![w] = FALSE]
    /\ UNCHANGED <<storeVars, lockVars, metricVars, req, cfgVars, lifeVars, issued, last,
                   delCount, held, nLogged>>

\* withMetrics -> Metrics.IncRequests: m.Lock(), and the read of m.Requests++
IncLock(w) ==
    /\ pc[w] = "inc"
    /\ MutexFree(mHolders)
    /\ mHolders' = mHolders \cup {w}
    /\ SetLv(w, [lv[w] EXCEPT !.tmp = Requests])
    /\ SetPc(w, "inc_write")
    /\ UNCHANGED <<storeVars, sWriters, sReaders, metricVars, req, lw, sent,
                   cfgVars, lifeVars, histVars>>
    /\ Touch(w)

\* Metrics.IncRequests: the write of m.Requests++, and m.Unlock(); then
\* next.ServeHTTP(w, r) hands the request to the mux
IncUnlock(w) ==
    /\ pc[w] = "inc_write"
    /\ Requests' = lv[w].tmp + 1
    /\ mHolders' = Unlocked(mHolders, w)
    /\ \E r \in RequestsOf(clients) :
         /\ req' = [req EXCEPT ![w] = r]
         /\ scen' = IF scen >= 0 /\ scen < Len(Scenario) /\ r = Scenario[scen + 1]
                    THEN scen ELSE -1
    /\ SetPc(w, "route")
    /\ UNCHANGED <<storeVars, sWriters, sReaders, TotalTodos, lw, sent, lv,
                   cfgVars, lifeVars, entered, issued, last, delCount, held,
                   nLogged>>
    /\ Touch(w)

\* ------------------------------------------------------ handlers, no store
\* healthHandler: the method is not looked at.
Health(w) ==
    /\ pc[w] = "route"
    /\ Mux(req[w].path) = "/healthz"
    /\ lw' = [lw EXCEPT ![w] = StatusOK]
    /\ sent' = [sent EXCEPT ![w] = SendBody(SendHeader(@, StatusOK), TextBody("ok"))]
    /\ SetPc(w, "log")
    /\ UNCHANGED <<storeVars, lockVars, metricVars, req, lv, cfgVars, lifeVars, histVars>>
    /\ Touch(w)

\* ServeMux: a path no pattern serves is answered by http.NotFound.
NotFound(w) ==
    /\ pc[w] = "route"
    /\ Mux(req[w].path) = ""
    /\ HttpError(w, "404 page not found", StatusNotFound)
    /\ SetPc(w, "log")
    /\ UNCHANGED <<storeVars, lockVars, metricVars, req, lv, cfgVars, lifeVars, histVars>>
    /\ Touch(w)

\* ---------------------------------------------------------------- /metrics
\* Metrics.Snapshot: m.Lock()
SnapLock(w) ==
    /\ pc[w] = "route"
    /\ Mux(req[w].path) = "/metrics"
    /\ MutexFree(mHolders)
    /\ mHolders' = mHolders \cup {w}
    /\ SetPc(w, "snap_rlock")
    /\ UNCHANGED <<storeVars, sWriters, sReaders, metricVars, req, lw, sent, lv,
                   cfgVars, lifeVars, histVars>>
    /\ Touch(w)

\* a Snapshot that does not recount
CountTodosStale(m, old) == old

\* the value Snapshot stores in m.TotalTodos
CountTodos(m, old) == Cardinality(DOMAIN m)

\* Metrics.Snapshot: store.RLock(); m.TotalTodos = len(store.todos); the map
SnapRLock(w) ==
    /\ pc[w] = "snap_rlock"
    /\ CanRLock(sWriters)
    /\ sReaders' = sReaders \cup {w}
    /\ TotalTodos' = CountTodos(todos, TotalTodos)
    /\ SetLv(w, [lv[w] EXCEPT !.snap = [requests |-> Requests,
                                        total_todos |-> TotalTodos']])
    /\ SetPc(w, "snap_ret")
    /\ UNCHANGED <<storeVars, sWriters, mHolders, Requests, req, lw, sent,
                   cfgVars, lifeVars, histVars>>
    /\ Touch(w)

\* Metrics.Snapshot returns: store.RUnlock(), m.Unlock()
SnapUnlock(w) ==
    /\ pc[w] = "snap_ret"
    /\ sReaders' = Unlocked(sReaders, w)
    /\ mHolders' = Unlocked(mHolders, w)
    /\ SetPc(w, "metrics_write")
    /\ UNCHANGED <<storeVars, sWriters, metricVars, req, lw, sent, lv,
                   cfgVars, lifeVars, histVars>>
    /\ Touch(w)

\* the /metrics handler: w.Write(js), no WriteHeader
MetricsWrite(w) ==
    /\ pc[w] = "metrics_write"
    /\ sent' = [sent EXCEPT ![w] =
                  SendBody(@, [NoBodySent EXCEPT !.kind = "metrics",
                                                 !.requests = lv[w].snap.requests,
                                                 !.total_todos = lv[w].snap.total_todos])]
    /\ SetPc(w, "log")
    /\ UNCHANGED <<storeVars, lockVars, metricVars, req, lw, lv, cfgVars, lifeVars, histVars>>
    /\ Touch(w)

\* ------------------------------------------------------------------ /todos
\* s.todos[id] with the comma-ok form
Lookup(m, id) ==
    [t |-> IF id \in DOMAIN m THEN m[id] ELSE 0, ok |-> id \in DOMAIN m]

\* default branch of the /todos handler
TodosMethodNotAllowed(w) ==
    /\ pc[w] = "route"
    /\ Mux(req[w].path) = "/todos"
    /\ req[w].method \notin {"GET", "POST"}
    /\ HttpError(w, "method not allowed", StatusMethodNotAllowed)
    /\ SetPc(w, "log")
    /\ UNCHANGED <<storeVars, lockVars, metricVars, req, lv, cfgVars, lifeVars, histVars>>
    /\ Touch(w)

\* POST /todos with a body that does not decode or a blank title
PostInvalid(w) ==
    /\ pc[w] = "route"
    /\ Mux(req[w].path) = "/todos"
    /\ req[w].method = "POST"
    /\ ~ValidCreate(req[w].body)
    /\ HttpError(w, "invalid payload", StatusBadRequest)
    /\ SetPc(w, "log")
    /\ UNCHANGED <<storeVars, lockVars, metricVars, req, lv, cfgVars, lifeVars, histVars>>
    /\ Touch(w)

\* Store.List: s.RLock() and the copy of the pointers
ListRLock(w) ==
    /\ pc[w] = "route"
    /\ Mux(req[w].path) = "/todos"
    /\ req[w].method = "GET"
    /\ CanRLock(sWriters)
    /\ sReaders' = sReaders \cup {w}
    /\ SetLv(w, [lv[w] EXCEPT !.all = {todos[k] : k \in DOMAIN todos},
                               !.listed = Encode({todos[k] : k \in DOMAIN todos})])
    /\ SetPc(w, "list_ret")
    /\ UNCHANGED <<storeVars, sWriters, mHolders, metricVars, req, lw, sent,
                   cfgVars, lifeVars, histVars>>
    /\ Touch(w)

\* Store.List returns: s.RUnlock()
ListRUnlock(w) ==
    /\ pc[w] = "list_ret"
    /\ sReaders' = Unlocked(sReaders, w)
    /\ SetLv(w, [lv[w] EXCEPT !.code = StatusOK])
    /\ SetPc(w, "respond_list")
    /\ UNCHANGED <<storeVars, sWriters, mHolders, metricVars, req, lw, sent,
                   cfgVars, lifeVars, histVars>>
    /\ Touch(w)

\* a record allocated without its ID
NewTodoNoId(n, title) == [ID |-> 0, Title |-> title, Completed |-> FALSE]

\* the record Store.Create allocates: &Todo{ID: s.next, Title: title}
NewTodo(n, title) == [ID |-> n, Title |-> title, Completed |-> FALSE]

\* Store.Create: s.Lock(); t := &Todo{...}
CreateLock(w) ==
    /\ pc[w] = "route"
    /\ Mux(req[w].path) = "/todos"
    /\ req[w].method = "POST"
    /\ ValidCreate(req[w].body)
    /\ CanLock(sWriters, sReaders)
    /\ sWriters' = sWriters \cup {w}
    /\ heap' = Append(heap, NewTodo(next, Decode(req[w].body).Title))
    /\ SetLv(w, [lv[w] EXCEPT !.t = Len(heap) + 1])
    /\ SetPc(w, "create_store")
    /\ UNCHANGED <<todos, next, sReaders, mHolders, metricVars, req, lw, sent,
                   cfgVars, lifeVars, histVars>>
    /\ Touch(w)

\* a Create that forgets s.next++
NextIdStuck(n) == n

\* s.next++
NextId(n) == n + 1

\* Store.Create: s.todos[s.next] = t; s.next++; return t (s.Unlock())
CreateStore(w) ==
    /\ pc[w] = "create_store"
    /\ todos' = (next :> lv[w].t) @@ todos
    /\ next' = NextId(next)
    /\ sWriters' = Unlocked(sWriters, w)
    /\ SetLv(w, [lv[w] EXCEPT !.code = StatusCreated])
    /\ SetPc(w, "respond_todo")
    /\ issued' = Append(issued, heap[lv[w].t].ID)
    /\ last' = (heap[lv[w].t].ID :>
                  [title |-> Decode(req[w].body).Title, completed |-> FALSE]) @@ last
    /\ UNCHANGED <<heap, sReaders, mHolders, metricVars, req, lw, sent,
                   cfgVars, lifeVars, entered, delCount, scen, held,
                   nLogged>>
    /\ Touch(w)

\* ------------------------------------------------------------- /todos/{id}
\* err != nil: "invalid id", before the method is looked at
TodoIdInvalid(w) ==
    /\ pc[w] = "route"
    /\ Mux(req[w].path) = "/todos/"
    /\ PathId(req[w].path).err
    /\ HttpError(w, "invalid id", StatusBadRequest)
    /\ SetPc(w, "log")
    /\ UNCHANGED <<storeVars, lockVars, metricVars, req, lv, cfgVars, lifeVars, histVars>>
    /\ Touch(w)

\* default branch of the /todos/ handler
TodoMethodNotAllowed(w) ==
    /\ pc[w] = "route"
    /\ Mux(req[w].path) = "/todos/"
    /\ ~PathId(req[w].path).err
    /\ req[w].method \notin {"GET", "PUT", "DELETE"}
    /\ HttpError(w, "method not allowed", StatusMethodNotAllowed)
    /\ SetPc(w, "log")
    /\ UNCHANGED <<storeVars, lockVars, metricVars, req, lv, cfgVars, lifeVars, histVars>>
    /\ Touch(w)

\* Store.Get: s.RLock(); t, ok := s.todos[id]
GetRLock(w) ==
    /\ pc[w] = "route"
    /\ Mux(req[w].path) = "/todos/"
    /\ ~PathId(req[w].path).err
    /\ req[w].method = "GET"
    /\ CanRLock(sWriters)
    /\ sReaders' = sReaders \cup {w}
    /\ LET id == PathId(req[w].path).val
       IN  SetLv(w, [lv[w] EXCEPT !.id = id,
                                  !.t = Lookup(todos, id).t,
                                  !.ok = Lookup(todos, id).ok,
                                  !.present = id \in DOMAIN todos])
    /\ SetPc(w, "get_ret")
    /\ UNCHANGED <<storeVars, sWriters, mHolders, metricVars, req, lw, sent,
                   cfgVars, lifeVars, histVars>>
    /\ Touch(w)

\* Store.Get returns: s.RUnlock(); the handler picks 200 or 404
GetRUnlock(w) ==
    /\ pc[w] = "get_ret"
    /\ sReaders' = Unlocked(sReaders, w)
    /\ SetLv(w, [lv[w] EXCEPT !.code = IF lv[w].ok THEN StatusOK ELSE StatusNotFound])
    /\ SetPc(w, IF lv[w].ok THEN "respond_todo" ELSE "respond_missing")
    /\ UNCHANGED <<storeVars, sWriters, mHolders, metricVars, req, lw, sent,
                   cfgVars, lifeVars, histVars>>
    /\ Touch(w)

\* PUT /todos/{id} with a body that does not decode
PutInvalid(w) ==
    /\ pc[w] = "route"
    /\ Mux(req[w].path) = "/todos/"
    /\ ~PathId(req[w].path).err
    /\ req[w].method = "PUT"
    /\ Decode(req[w].body).err
    /\ HttpError(w, "invalid payload", StatusBadRequest)
    /\ SetPc(w, "log")
    /\ UNCHANGED <<storeVars, lockVars, metricVars, req, lv, cfgVars, lifeVars, histVars>>
    /\ Touch(w)

\* Store.Update: s.Lock(); t, ok := s.todos[id]
UpdateLock(w) ==
    /\ pc[w] = "route"
    /\ Mux(req[w].path) = "/todos/"
    /\ ~PathId(req[w].path).err
    /\ req[w].method = "PUT"
    /\ ~Decode(req[w].body).err
    /\ CanLock(sWriters, sReaders)
    /\ sWriters' = sWriters \cup {w}
    /\ LET id == PathId(req[w].path).val
       IN  SetLv(w, [lv[w] EXCEPT !.id = id,
                                  !.t = Lookup(todos, id).t,
                                  !.ok = Lookup(todos, id).ok,
                                  !.present = id \in DOMAIN todos])
    /\ SetPc(w, "upd_body")
    /\ UNCHANGED <<storeVars, sReaders, mHolders, metricVars, req, lw, sent,
                   cfgVars, lifeVars, histVars>>
    /\ Touch(w)

\* Store.Update: if !ok { return nil, false } (s.Unlock())
UpdateMiss(w) ==
    /\ pc[w] = "upd_body"
    /\ ~lv[w].ok
    /\ sWriters' = Unlocked(sWriters, w)
    /\ SetLv(w, [lv[w] EXCEPT !.code = StatusNotFound, !.t = 0])
    /\ SetPc(w, "respond_missing")
    /\ UNCHANGED <<storeVars, sReaders, mHolders, metricVars, req, lw, sent,
                   cfgVars, lifeVars, histVars>>
    /\ Touch(w)

\* Store.Update: t.Title = title
UpdateTitle(w) ==
    /\ pc[w] = "upd_body"
    /\ lv[w].ok
    /\ heap' = [heap EXCEPT ![lv[w].t].Title = Decode(req[w].body).Title]
    /\ SetPc(w, "upd_completed")
    /\ Written(lv[w].t)
    /\ UNCHANGED <<todos, next, lockVars, metricVars, req, lw, sent, lv,
                   cfgVars, lifeVars, entered, issued, last, delCount, scen,
                   nLogged>>
    /\ Touch(w)

\* an Update that forgets t.Completed
NewCompletedKept(old, completed) == old

\* the value Store.Update leaves in t.Completed
NewCompleted(old, completed) == completed

\* Store.Update: t.Completed = completed; return t, true (s.Unlock())
UpdateCompleted(w) ==
    /\ pc[w] = "upd_completed"
    /\ heap' = [heap EXCEPT ![lv[w].t].Completed =
                                NewCompleted(@, Decode(req[w].body).Completed)]
    /\ sWriters' = Unlocked(sWriters, w)
    /\ SetLv(w, [lv[w] EXCEPT !.code = StatusOK])
    /\ SetPc(w, "respond_todo")
    /\ last' = (lv[w].id :> [title |-> Decode(req[w].body).Title,
                             completed |-> Decode(req[w].body).Completed]) @@ last
    /\ Written(lv[w].t)
    /\ UNCHANGED <<todos, next, sReaders, mHolders, metricVars, req, lw, sent,
                   cfgVars, lifeVars, entered, issued, delCount, scen,
                   nLogged>>
    /\ Touch(w)

\* Store.Delete: s.Lock(); _, ok := s.todos[id]
DeleteLock(w) ==
    /\ pc[w] = "route"
    /\ Mux(req[w].path) = "/todos/"
    /\ ~PathId(req[w].path).err
    /\ req[w].method = "DELETE"
    /\ CanLock(sWriters, sReaders)
    /\ sWriters' = sWriters \cup {w}
    /\ LET id == PathId(req[w].path).val
       IN  SetLv(w, [lv[w] EXCEPT !.id = id,
                                  !.ok = Lookup(todos, id).ok,
                                  !.present = id \in DOMAIN todos])
    /\ SetPc(w, "del_body")
    /\ UNCHANGED <<storeVars, sReaders, mHolders, metricVars, req, lw, sent,
                   cfgVars, lifeVars, histVars>>
    /\ Touch(w)

\* a Delete that leaves the entry in the map
MapDeleteNoop(m, id) == m

\* delete(s.todos, id)
MapDelete(m, id) == [k \in DOMAIN m \ {id} |-> m[k]]

\* Store.Delete: return false, or delete(s.todos, id); return true (s.Unlock())
DeleteDone(w) ==
    /\ pc[w] = "del_body"
    /\ todos' = IF lv[w].ok THEN MapDelete(todos, lv[w].id) ELSE todos
    /\ sWriters' = Unlocked(sWriters, w)
    /\ SetLv(w, [lv[w] EXCEPT !.code = IF lv[w].ok THEN StatusNoContent
                                        ELSE StatusNotFound])
    /\ SetPc(w, IF lv[w].ok THEN "respond_gone" ELSE "respond_missing")
    /\ delCount' = IF lv[w].ok
                   THEN (lv[w].id :> (IF lv[w].id \in DOMAIN delCount
                                      THEN delCount[lv[w].id] + 1 ELSE 1)) @@ delCount
                   ELSE delCount
    /\ UNCHANGED <<next, heap, sReaders, mHolders, metricVars, req, lw, sent,
                   cfgVars, lifeVars, entered, issued, last, scen, held,
                   nLogged>>
    /\ Touch(w)

\* --------------------------------------------------------------- responses
\* respondJSON(w, t, code): WriteHeader(code); Encode reads t.ID and t.Title
RespondTodo(w) ==
    /\ pc[w] = "respond_todo"
    /\ lw' = [lw EXCEPT ![w] = lv[w].code]
    /\ sent' = [sent EXCEPT ![w] = SendHeader(@, lv[w].code)]
    /\ SetLv(w, [lv[w] EXCEPT !.enc = [id |-> heap[lv[w].t].ID,
                                       title |-> heap[lv[w].t].Title,
                                       completed |-> FALSE]])
    /\ held' = [held EXCEPT ![w] = {Pair(heap[lv[w].t])}]
    /\ SetPc(w, "enc_completed")
    /\ UNCHANGED <<storeVars, lockVars, metricVars, req, cfgVars, lifeVars, entered,
                   issued, last, delCount, scen, nLogged>>
    /\ Touch(w)

\* respondJSON: Encode reads t.Completed and writes the object
EncodeTodo(w) ==
    /\ pc[w] = "enc_completed"
    /\ sent' = [sent EXCEPT ![w] =
                  SendBody(@, [NoBodySent EXCEPT
                                 !.kind = "todo",
                                 !.todos = {[lv[w].enc EXCEPT !.completed =
                                                heap[lv[w].t].Completed]}])]
    /\ SetPc(w, "log")
    /\ UNCHANGED <<storeVars, lockVars, metricVars, req, lw, lv, cfgVars, lifeVars, histVars>>
    /\ Touch(w)

\* respondJSON(w, all, http.StatusOK)
RespondList(w) ==
    /\ pc[w] = "respond_list"
    /\ lw' = [lw EXCEPT ![w] = lv[w].code]
    /\ sent' = [sent EXCEPT ![w] =
                  SendBody(SendHeader(@, lv[w].code),
                           [NoBodySent EXCEPT !.kind = "list",
                                              !.todos = Encode(lv[w].all)])]
    /\ SetPc(w, "log")
    /\ UNCHANGED <<storeVars, lockVars, metricVars, req, lv, cfgVars, lifeVars, histVars>>
    /\ Touch(w)

\* http.Error(w, "not found", http.StatusNotFound)
RespondMissing(w) ==
    /\ pc[w] = "respond_missing"
    /\ HttpError(w, "not found", lv[w].code)
    /\ SetPc(w, "log")
    /\ UNCHANGED <<storeVars, lockVars, metricVars, req, lv, cfgVars, lifeVars, histVars>>
    /\ Touch(w)

\* w.WriteHeader(http.StatusNoContent)
RespondGone(w) ==
    /\ pc[w] = "respond_gone"
    /\ lw' = [lw EXCEPT ![w] = lv[w].code]
    /\ sent' = [sent EXCEPT ![w] = SendHeader(@, lv[w].code)]
    /\ SetPc(w, "log")
    /\ UNCHANGED <<storeVars, lockVars, metricVars, req, lv, cfgVars, lifeVars, histVars>>
    /\ Touch(w)

\* withLogging: log.Printf after the inner handler returned; the worker is
\* free for the next request
Log(w) ==
    /\ pc[w] = "log"
    /\ SetPc(w, "idle")
    /\ req' = [req EXCEPT ![w] = NoReq]
    /\ lw' = [lw EXCEPT ![w] = 0]
    /\ sent' = [sent EXCEPT ![w] = NoSent]
    /\ SetLv(w, NoLv)
    /\ scen' = IF scen >= 0 THEN scen + 1 ELSE -1
    /\ nLogged' = nLogged + 1
    /\ held' = [held EXCEPT ![w] = {}]
    /\ dirty' = [dirty EXCEPT ![w] = FALSE]
    /\ UNCHANGED <<storeVars, lockVars, metricVars, cfgVars, lifeVars, entered, issued,
                   last, delCount>>

\* ---------------------------------------------------------------- lifecycle
\* srv.ListenAndServe(): the listener is bound and serves
Listen ==
    /\ mainPc = "start"
    /\ ~inShutdown
    /\ mainPc' = "serving"
    /\ UNCHANGED <<storeVars, lockVars, metricVars, workerVars, cfgVars, histVars,
                   dirty, sigPc, inShutdown, expired, closed, err>>

\* ----------------------------------------------------------- specification
\* no connection is serving a request
AllIdle == \A w \in Workers : pc[w] = "idle"

\* the steps of worker w on the request it has taken
Handle(w) ==
        \/ IncLock(w) \/ IncUnlock(w)
        \/ Health(w) \/ NotFound(w)
        \/ SnapLock(w) \/ SnapRLock(w) \/ SnapUnlock(w) \/ MetricsWrite(w)
        \/ TodosMethodNotAllowed(w) \/ PostInvalid(w)
        \/ ListRLock(w) \/ ListRUnlock(w)
        \/ CreateLock(w) \/ CreateStore(w)
        \/ TodoIdInvalid(w) \/ TodoMethodNotAllowed(w)
        \/ GetRLock(w) \/ GetRUnlock(w)
        \/ PutInvalid(w)
        \/ UpdateLock(w) \/ UpdateMiss(w) \/ UpdateTitle(w) \/ UpdateCompleted(w)
        \/ DeleteLock(w) \/ DeleteDone(w)
        \/ RespondTodo(w) \/ EncodeTodo(w) \/ RespondList(w)
        \/ RespondMissing(w) \/ RespondGone(w)
        \/ Log(w)

\* the steps of the request workers
Serve == \E w \in Workers : Begin(w) \/ Handle(w)

\* a run in which the listener comes up and no signal arrives
Next == Listen \/ Serve

Spec == Init /\ [][Next]_vars

\* some worker takes a step on its request
Progress == \E w \in Workers : Handle(w)

\* the same run under a fair scheduler: while some goroutine can take a step
\* on its request, one does; nothing is assumed of the clients sending
\* requests
SpecFair == Spec /\ WF_vars(Progress)

\* ------------------------------------------------------ graceful shutdown
\* the connections of a run that is interrupted or loses its listener
LifeRequests == Cardinality(Workers)

InitLife ==
    /\ Fresh
    /\ clients = Workers
    /\ budget = LifeRequests

\* os.Exit: every goroutine of the process ends where it stands
Killed == [w \in Workers |-> "exited"]

\* an error comparison that takes the intentional close for a failure
IsFatalAlways(e) == TRUE

\* if err := srv.ListenAndServe(); err != http.ErrServerClosed
IsFatal(e) == e # "ErrServerClosed"

\* a Shutdown that does not wait for the connections
ShutdownReturnsAtOnce(idle, done) == TRUE

\* srv.Shutdown(ctx) returns once every connection is idle or ctx is done
ShutdownMayReturn(idle, done) == idle \/ done

\* srv.ListenAndServe() returned e: log.Fatalf ends the process, otherwise
\* main goes on to <-idleConnsClosed
Returned(e) ==
    /\ err' = e
    /\ IF IsFatal(e)
       THEN /\ mainPc' = "fatal"
            /\ sigPc' = "exited"
            /\ pc' = Killed
       ELSE /\ mainPc' = "wait_closed"
            /\ UNCHANGED <<sigPc, pc>>
    /\ UNCHANGED <<storeVars, lockVars, metricVars, req, lw, sent, lv, cfgVars,
                   histVars, dirty, inShutdown, expired, closed>>

\* <-c: the interrupt signal arrives; "Shutdown signal received" is logged
Interrupt ==
    /\ sigPc = "wait_signal"
    /\ mainPc \in {"start", "serving"}
    /\ sigPc' = "signalled"
    /\ UNCHANGED <<storeVars, lockVars, metricVars, workerVars, cfgVars, histVars,
                   dirty, mainPc, inShutdown, expired, closed, err>>

\* context.WithTimeout(.., 5*time.Second); srv.Shutdown(ctx) closes the
\* listener and the idle connections
ShutdownBegin ==
    /\ sigPc = "signalled"
    /\ inShutdown' = TRUE
    /\ sigPc' = "shutdown"
    /\ UNCHANGED <<storeVars, lockVars, metricVars, workerVars, cfgVars, histVars,
                   dirty, mainPc, expired, closed, err>>

\* the 5 seconds of ctx pass
Expire ==
    /\ sigPc = "shutdown"
    /\ ~expired
    /\ expired' = TRUE
    /\ UNCHANGED <<storeVars, lockVars, metricVars, workerVars, cfgVars, histVars,
                   dirty, mainPc, sigPc, inShutdown, closed, err>>

\* srv.Shutdown(ctx) returns; close(idleConnsClosed)
ShutdownReturn ==
    /\ sigPc = "shutdown"
    /\ ShutdownMayReturn(AllIdle, expired)
    /\ closed' = TRUE
    /\ sigPc' = "done"
    /\ UNCHANGED <<storeVars, lockVars, metricVars, workerVars, cfgVars, histVars,
                   dirty, mainPc, inShutdown, expired, err>>

\* srv.ListenAndServe() returns http.ErrServerClosed: Shutdown was called
ServeClosed ==
    /\ mainPc \in {"start", "serving"}
    /\ inShutdown
    /\ Returned("ErrServerClosed")

\* srv.ListenAndServe() cannot bind the address
ListenFail ==
    /\ mainPc = "start"
    /\ ~inShutdown
    /\ Returned("listen")

\* srv.ListenAndServe(): Accept fails for good while the server is serving
ServeFail ==
    /\ mainPc = "serving"
    /\ ~inShutdown
    /\ Returned("accept")

\* <-idleConnsClosed; "Goodbye"; main returns and the process ends
MainExit ==
    /\ mainPc = "wait_closed"
    /\ closed
    /\ mainPc' = "exited"
    /\ pc' = Killed
    /\ UNCHANGED <<storeVars, lockVars, metricVars, req, lw, sent, lv, cfgVars,
                   histVars, dirty, sigPc, inShutdown, expired, closed, err>>

\* the steps main and the shutdown goroutine take once the signal is there
Shutdown == ShutdownBegin \/ Expire \/ ShutdownReturn \/ ServeClosed \/ MainExit

\* a run with a listener that does not fail
NextLife == Next \/ Interrupt \/ Shutdown

\* main, the shutdown goroutine and the timer of ctx keep running; nothing
\* is assumed of the signal, nor of the requests in flight
SpecLife == InitLife /\ [][NextLife]_vars /\ WF_vars(Shutdown)

\* a run whose listener may fail
NextFatal == NextLife \/ ListenFail \/ ServeFail

SpecFatal == InitLife /\ [][NextFatal]_vars

\* ================================================================== claims
RECURSIVE SumOver(_, _)
SumOver(f, S) ==
    IF S = {} THEN 0
    ELSE LET x == CHOOSE y \in S : TRUE IN f[x] + SumOver(f, S \ {x})

InFlight(w) == pc[w] # "idle"
Answered(w) == pc[w] = "log"

\* C1: the ids returned by Create are strictly increasing in call order, the
\* first is 1, and the id counter is greater than every id ever issued (and
\* than every id in the map), whatever Updates and Deletes come in between.
C1_IdsIncreasing ==
    /\ \A i, j \in 1..Len(issued) : i < j => issued[i] < issued[j]
    /\ Len(issued) > 0 => issued[1] = 1
    /\ \A i \in 1..Len(issued) : issued[i] < next
    /\ \A id \in DOMAIN todos \cup DOMAIN delCount : id < next

\* a Create that returned id 2 after the record of id 1 had been deleted
C1_Witness ==
    /\ clients = {"w1"}
    /\ pc["w1"] = "respond_todo"
    /\ lv["w1"].code = StatusCreated
    /\ heap[lv["w1"].t].ID = 2
    /\ 1 \in DOMAIN delCount

\* C2: concurrent Creates issue pairwise distinct ids and each leaves its own
\* record in the map: the map holds one record per Create that returned,
\* less the deleted ones, and no two keys share a record.
C2_ConcurrentCreates ==
    /\ \A i, j \in 1..Len(issued) : i # j => issued[i] # issued[j]
    /\ Cardinality(DOMAIN todos) + SumOver(delCount, DOMAIN delCount) = Len(issued)
    /\ \A i \in 1..Len(issued) : issued[i] \in DOMAIN todos \cup DOMAIN delCount
    /\ \A a, b \in DOMAIN todos : a # b => todos[a] # todos[b]

\* two workers have both returned from Create while the other was in flight
C2_Witness ==
    /\ \A w \in Workers : pc[w] = "respond_todo" /\ lv[w].code = StatusCreated
    /\ heap[lv["w1"].t].ID # heap[lv["w2"].t].ID
    /\ Cardinality(DOMAIN todos) = 2

\* C3: Get finds exactly the ids created and not deleted, and the record it
\* returns carries the title and completed flag of the latest Create (then
\* completed is false) or Update of that id.
C3_GetReturnsLatest ==
    \A w \in Workers :
        pc[w] = "get_ret" =>
            /\ lv[w].ok <=> (lv[w].id \in DOMAIN last \ DOMAIN delCount)
            /\ lv[w].ok =>
                 /\ heap[lv[w].t].ID = lv[w].id
                 /\ heap[lv[w].t].Title = last[lv[w].id].title
                 /\ heap[lv[w].t].Completed = last[lv[w].id].completed

\* a Get of a record after its Update to ("y", true)
C3_Witness ==
    \E w \in Workers :
        /\ pc[w] = "get_ret"
        /\ lv[w].ok
        /\ heap[lv[w].t].Title = <<"y">>
        /\ heap[lv[w].t].Completed

\* C4: Delete of an existing id finds it, and returns true at most once per
\* id; from then on the id is not in the map, and Get, Update and Delete of
\* it find nothing.
C4_DeleteFinal ==
    /\ \A id \in DOMAIN delCount : delCount[id] = 1 /\ id \notin DOMAIN todos
    /\ \A w \in Workers :
         pc[w] \in {"get_ret", "upd_body", "del_body"} =>
             /\ lv[w].id \in DOMAIN delCount => ~lv[w].ok
             /\ lv[w].id \in DOMAIN last \ DOMAIN delCount => lv[w].ok

\* a Delete of an id deleted before, in a store that issued a second id
C4_Witness ==
    \E w \in Workers :
        /\ pc[w] = "del_body"
        /\ lv[w].id \in DOMAIN delCount
        /\ Len(issued) >= 2

\* ------------------------------------------------- the routing table, as read
\* a decimal integer: an optional sign and at least one digit
IsInteger(rem) ==
    LET ds == IF rem # <<>> /\ rem[1] \in {"+", "-"} THEN Tail(rem) ELSE rem
    IN  ds # <<>> /\ \A i \in 1..Len(ds) : ds[i] \in {Digits[k] : k \in 1..10}

\* empty or whitespace-only
Blank(title) == \A i \in 1..Len(title) : title[i] \in {" ", "\t", "\n", "\r"}

IsTodos(p) == p = <<"/todos">>
IsTodo(p) == Len(p) >= 2 /\ p[1] = "/todos" /\ p[2] = "/"
Remainder(p) == SubSeq(p, 3, Len(p))

Undecodable(b) == ~b.json

\* the status the routing table gives a request of the /todos routes, the id
\* being present or absent when the store is asked
TableStatus(r, present) ==
    IF IsTodos(r.path) /\ r.method = "POST"
    THEN IF Undecodable(r.body) \/ Blank(r.body.title)
         THEN StatusBadRequest ELSE StatusCreated
    ELSE IF ~IsInteger(Remainder(r.path)) \/ (r.method = "PUT" /\ Undecodable(r.body))
         THEN StatusBadRequest
         ELSE IF ~present THEN StatusNotFound
         ELSE IF r.method = "DELETE" THEN StatusNoContent ELSE StatusOK

InTable(r) ==
    \/ IsTodos(r.path) /\ r.method = "POST"
    \/ IsTodo(r.path) /\ r.method \in {"GET", "PUT", "DELETE"}

ScenarioStatus ==
    <<StatusCreated, StatusOK, StatusOK, StatusNoContent, StatusNotFound>>

\* the todo objects the scenario's answers carry
ScenarioTodos ==
    << {[id |-> 1, title |-> <<"x">>, completed |-> FALSE]},
       {[id |-> 1, title |-> <<"x">>, completed |-> FALSE]},
       {[id |-> 1, title |-> <<"y">>, completed |-> TRUE]},
       {}, {} >>

C6_RejectedLeavesStore ==
    \A w \in Workers :
        /\ (InFlight(w) /\ req[w].method = "GET") => ~dirty[w]
        /\ (Answered(w) /\ sent[w].status \in
               {StatusBadRequest, StatusNotFound, StatusMethodNotAllowed}) => ~dirty[w]
        /\ (InFlight(w) /\ IsTodos(req[w].path) /\ req[w].method = "POST"
              /\ req[w].body.json /\ Blank(req[w].body.title)) => ~dirty[w]
        /\ (Answered(w) /\ dirty[w]) =>
               sent[w].status \in {StatusOK, StatusCreated, StatusNoContent}

\* a POST with a whitespace-only title answered 400 on a store that had
\* issued one id: the counter still stands at 2
C6_Witness ==
    \E w \in Workers :
        /\ Answered(w)
        /\ req[w].method = "POST"
        /\ req[w].body.json
        /\ req[w].body.title = <<" ">>
        /\ sent[w].status = StatusBadRequest
        /\ next = 2
        /\ ~dirty[w]

\* the paths the routing table handles, and the methods it lists for each
Handled(p) ==
    p \in {<<"/healthz">>, <<"/version">>, <<"/metrics">>} \/ IsTodos(p) \/ IsTodo(p)

Listed(r) ==
    \/ r.path \in {<<"/healthz">>, <<"/version">>, <<"/metrics">>} /\ r.method = "GET"
    \/ IsTodos(r.path) /\ r.method \in {"GET", "POST"}
    \/ IsTodo(r.path) /\ r.method \in {"GET", "PUT", "DELETE"}

\* C7: a request on a handled path whose method the routing table does not
\* list for that path is answered 405, whatever the path remainder.
C7_UnlistedMethod405 ==
    \A w \in Workers :
        (Answered(w) /\ Handled(req[w].path) /\ ~Listed(req[w])) =>
            sent[w].status = StatusMethodNotAllowed

\* C8: GET /version is answered 200 with the version string.
C8_VersionServed ==
    \A w \in Workers :
        (Answered(w) /\ req[w].method = "GET" /\ req[w].path = <<"/version">>) =>
            /\ sent[w].status = StatusOK
            /\ sent[w].body.kind = "text"
            /\ sent[w].body.text = version

\* the requests that entered the chain and have not finished IncRequests
Pending == {w \in Workers : pc[w] \in {"inc", "inc_write"}}

\* C9: the request counter is the number of requests that entered the chain
\* less those still inside IncRequests, so every request is counted once,
\* before the mux sees it, and none is lost; a snapshot returns the counter
\* as it stands, its own request included.
C9_RequestsCounted ==
    /\ Requests + Cardinality(Pending) = entered
    /\ \A w \in Workers :
         /\ pc[w] = "snap_ret" =>
              /\ lv[w].snap.requests = Requests
              /\ lv[w].snap.requests >= 1
         /\ (Answered(w) /\ sent[w].body.kind = "metrics") =>
              /\ sent[w].body.requests = lv[w].snap.requests
              /\ clients = {w} => sent[w].body.requests = entered

\* both connections have sent requests, all are counted, and the last one,
\* a /metrics request, reports all of them
C9_Witness ==
    /\ clients = Workers
    /\ entered = MaxRequests
    /\ Requests = MaxRequests
    /\ \E w \in Workers :
         /\ Answered(w)
         /\ sent[w].body.kind = "metrics"
         /\ sent[w].body.requests = MaxRequests

\* C10: the total_todos of a snapshot is the number of records in the map
\* while the snapshot holds the read lock, with no Create, Update or Delete
\* inside its critical section, and it is the value the response carries.
C10_SnapshotCountsStore ==
    \A w \in Workers :
        /\ pc[w] = "snap_ret" =>
             /\ lv[w].snap.total_todos = Cardinality(DOMAIN todos)
             /\ TotalTodos = Cardinality(DOMAIN todos)
             /\ sWriters = {}
        /\ (Answered(w) /\ sent[w].body.kind = "metrics") =>
             sent[w].body.total_todos = lv[w].snap.total_todos

\* a snapshot that counts one record after an earlier snapshot had left
\* another count in m.TotalTodos, while a Create waits for the store
C10_Witness ==
    /\ pc["w1"] = "snap_ret"
    /\ lv["w1"].snap.total_todos = 1
    /\ pc["w2"] = "route"
    /\ req["w2"].method = "POST"
    /\ ValidCreate(req["w2"].body)

\* C11: the sequence List returned is a snapshot copy: while the caller holds
\* it and when it is written into the response, its content (id, title,
\* completed of each element) is the content the store had when List ran,
\* whatever Update, Delete or Create ran after List returned.
C11_ListIsSnapshot ==
    \A w \in Workers :
        /\ pc[w] = "respond_list" => Encode(lv[w].all) = lv[w].listed
        /\ (Answered(w) /\ sent[w].body.kind = "list") =>
             sent[w].body.todos = lv[w].listed

\* C12: the (title, completed) pair a GET /todos/{id}, PUT or POST response
\* carries is a pair the record held at one single moment of the time the
\* response was being encoded: never the title of one Update with the
\* completed flag of another.
C12_NoTornRead ==
    \A w \in Workers :
        (Answered(w) /\ sent[w].body.kind = "todo") =>
            \A t \in sent[w].body.todos :
                [title |-> t.title, completed |-> t.completed] \in held[w]

\* the lifecycle state of the server; Draining begins when srv.Shutdown is
\* called, Failed is the end log.Fatalf makes
Phase ==
    IF mainPc = "exited" THEN "Stopped"
    ELSE IF mainPc = "fatal" THEN "Failed"
    ELSE IF inShutdown THEN "Draining"
    ELSE IF mainPc = "serving" THEN "Serving"
    ELSE "Starting"

\* the interrupt signal has been received
Signalled == sigPc \in {"signalled", "shutdown", "done"}

\* Draining is entered only once the signal is there; while Draining no
\* request is accepted; Stopped is entered only when every connection is
\* idle or the grace period has expired
DrainingRules ==
    /\ (Phase' = "Draining" /\ Phase # "Draining") => sigPc = "signalled"
    /\ Phase = "Draining" => entered' = entered
    /\ (Phase' = "Stopped" /\ Phase # "Stopped") => (AllIdle \/ expired)

\* after the interrupt the process stops, whatever the requests in flight do,
\* and it stops once they have finished or the grace period has expired
DrainingEnds ==
    /\ Signalled ~> (Phase = "Stopped")
    /\ (Phase = "Draining" /\ (AllIdle \/ expired)) ~> (Phase = "Stopped")

C14_FatalListenerError ==
    /\ err \in {"listen", "accept"} => mainPc = "fatal"
    /\ mainPc = "fatal" =>
         /\ err \in {"listen", "accept"}
         /\ ~inShutdown /\ ~expired /\ ~closed
         /\ pc = Killed
         /\ sigPc = "exited"
    /\ err = "ErrServerClosed" =>
         /\ mainPc \in {"wait_closed", "exited"}
         /\ inShutdown

\* the listener failed while a request was being served
C14_Witness ==
    /\ mainPc = "fatal"
    /\ err = "accept"
    /\ \E w \in Workers : req[w] # NoReq

\* C15: in every reachable state every key of the todo map is the ID of the
\* record stored under it, and no step changes the ID of a record: Update
\* writes Title and Completed only.
C15_KeyIsId ==
    /\ [](\A k \in DOMAIN todos : heap[todos[k]].ID = k)
    /\ [][\A p \in DOMAIN heap : heap'[p].ID = heap[p].ID]_vars

\* a second record was created and then updated
C15_Witness ==
    /\ 2 \in DOMAIN todos
    /\ heap[todos[2]].Completed
    /\ sWriters = {}

\* a request with a decodable body whose title is empty or whitespace-only
BlankTitled(r) == ~Undecodable(r.body) /\ Blank(r.body.title)

\* C16: a PUT /todos/{id} with a decodable body whose title is empty or
\* whitespace-only, on an id the store holds, is answered 200 and the title
\* is stored; a POST /todos with such a title is answered 400 and changes
\* nothing; no record is created with such a title, and a record's title
\* changes, to such a title too, only in a step of Update.
C16_TitleAsymmetry ==
    /\ [](\A w \in Workers :
            (Answered(w) /\ BlankTitled(req[w])) =>
                /\ (IsTodos(req[w].path) /\ req[w].method = "POST") =>
                       /\ sent[w].status = StatusBadRequest
                       /\ ~dirty[w]
                /\ (IsTodo(req[w].path) /\ req[w].method = "PUT" /\ lv[w].ok) =>
                       /\ sent[w].status = StatusOK
                       /\ clients = {w} => heap[lv[w].t].Title = req[w].body.title)
    /\ [][\A p \in DOMAIN heap' :
            /\ p \notin DOMAIN heap => ~Blank(heap'[p].Title)
            /\ (p \in DOMAIN heap /\ heap'[p].Title # heap[p].Title) =>
                   \E w \in Workers :
                       /\ pc[w] = "upd_body" /\ pc'[w] = "upd_completed"
                       /\ req[w].method = "PUT"
                       /\ lv[w].t = p
                       /\ heap'[p].Title = req[w].body.title]_vars

\* a PUT with a whitespace-only title was answered 200 and the record holds
\* that title
C16_Witness ==
    \E w \in Workers :
        /\ Answered(w)
        /\ req[w].method = "PUT"
        /\ BlankTitled(req[w])
        /\ req[w].body.title # <<>>
        /\ sent[w].status = StatusOK
        /\ heap[lv[w].t].Title = req[w].body.title

\* the worker is inside the critical section of Create, Update or Delete
InWrite(w) == pc[w] \in {"create_store", "upd_body", "upd_completed", "del_body"}

\* the worker is inside the critical section of List, Get or of the
\* snapshot's len(store.todos)
InRead(w) == pc[w] \in {"list_ret", "get_ret", "snap_ret"}

\* C17: no Create, Update or Delete is inside its critical section while
\* another store operation, mutation or read, is inside its own; the lock is
\* held exactly inside the critical sections. (That List, Get and the
\* snapshot's read share the lock is the reachable state C17_Witness.)
C17_SharedReadExclusiveWrite ==
    \A w \in Workers :
        /\ InWrite(w) <=> w \in sWriters
        /\ InRead(w) <=> w \in sReaders
        /\ InWrite(w) => \A v \in Workers \ {w} : ~InWrite(v) /\ ~InRead(v)

\* a List and a Get are inside their critical sections at the same time
C17_Witness ==
    /\ pc["w1"] = "list_ret"
    /\ pc["w2"] = "get_ret"
    /\ sReaders = Workers

\* the positions at which a worker holds, or is about to be given, a lock:
\* inside Metrics.IncRequests, Metrics.Snapshot and the Store methods
InsideLock(w) ==
    InWrite(w) \/ InRead(w) \/ pc[w] \in {"inc_write", "snap_rlock"}

\* the locks worker w holds
Holds(w) ==
    (IF w \in sWriters THEN {"store.Lock"} ELSE {})
        \cup (IF w \in sReaders THEN {"store.RLock"} ELSE {})
        \cup (IF w \in mHolders THEN {"metrics.Lock"} ELSE {})

\* C18: under fair scheduling the requests that have begun get the locks
\* they ask for and complete, every worker being idle again (a worker is
\* idle again only when its request is done), so the system never
\* deadlocks; a worker holds a lock only inside IncRequests, Snapshot and
\* the Store methods, never while it decodes the body or encodes and writes
\* the response, and it holds none when it has finished.
C18_NoIndefiniteBlocking ==
    /\ [](\A w \in Workers : Holds(w) # {} => InsideLock(w))
    /\ (~AllIdle) ~> AllIdle

\* a Snapshot holds the metrics lock and waits for the store's read lock
\* while an Update holds the store's lock
C18_Witness ==
    /\ pc["w1"] = "snap_rlock"
    /\ "w1" \in mHolders
    /\ pc["w2"] = "upd_completed"
    /\ "w2" \in sWriters

\* the worker has asked for the store's read lock inside Metrics.Snapshot
\* (the only place where the metrics lock is held across a store call) and
\* a writer keeps it waiting
SnapshotWaits(w) == pc[w] = "snap_rlock" /\ ~CanRLock(sWriters)

\* C19: the metrics lock is never held by a worker that is itself waiting
\* for the store's lock while a store mutation is in progress, so that no
\* request waits in IncRequests because of a store operation.
C19_MetricsLockIndependent ==
    \A w \in Workers : w \in mHolders => ~SnapshotWaits(w)

\* log.Printf("%s %s %d %v", r.Method, r.URL.Path, lw.status, ..): the line
\* withLogging writes for worker w when the inner handler has returned
LogLine(w) == [method |-> req[w].method, path |-> req[w].path, status |-> lw[w]]

\* C20: every request gets one log line, written when the inner handler
\* (metrics increment, then the mux) has returned and the response has been
\* produced; the status of the line is the status sent to the client: the
\* one the handler wrote, or 200 when it wrote a body and no status.
C20_OneLogLine ==
    /\ [](\A w \in Workers :
            Answered(w) =>
                /\ LogLine(w).status = sent[w].status
                /\ sent[w].status # 0
                /\ sent[w].status # StatusNoContent => sent[w].body.kind # ""
                /\ sent[w].body.kind = "metrics" => LogLine(w).status = StatusOK
                /\ Holds(w) = {})
    /\ [](nLogged + Cardinality({w \in Workers : pc[w] # "idle"}) = entered)
    /\ [][nLogged' # nLogged =>
            /\ nLogged' = nLogged + 1
            /\ \E w \in Workers : Answered(w) /\ pc'[w] = "idle"]_vars

\* /metrics has written its body without a status, after an earlier request
\* got its line: the line to come says 200
C20_Witness ==
    \E w \in Workers :
        /\ Answered(w)
        /\ sent[w].body.kind = "metrics"
        /\ LogLine(w).status = StatusOK
        /\ nLogged > 0
====
